---- MODULE Spec2Model ----
(***************************************************************************)
(* Model of connectchain.lcel.model: model(index) resolves a model index   *)
(* to a language-model client, reusing the client cached in the SessionMap *)
(* while the token published in os.environ is present and not expired.     *)
(*                                                                         *)
(* One call of model(index) is a sequence of steps of a thread; the steps  *)
(* are the places where the call reads or writes shared state (os.environ, *)
(* the SessionMap, the clock) or calls a collaborator.                     *)
(***************************************************************************)
EXTENDS Integers, Sequences, FiniteSets, TLC

VARIABLES
    cfg,      \* the configuration Config.from_env() returns (fixed per process)
    now,      \* the clock (time.time()), in whole seconds
    env,      \* os.environ restricted to session keys: key -> raw token
    cache,    \* the SessionMap: key -> [llm, issuedAt]
    lock,     \* holder of the SessionMap lock, or Free
    th,       \* per thread: position in model(index), locals, and call record
    calls,    \* number of calls of model(index) started so far
    tokens,   \* number of tokens handed out so far (the last token's value)
    handles,  \* number of client objects constructed so far (the last one's id)
    putLog,   \* history: the (key, llm, issuedAt) triples passed to new_session
    hist      \* history per index: last issuance and the handle it produced

vars == <<cfg, now, env, cache, lock, th, calls, tokens, handles, putLog, hist>>

(***************************************************************************)
(* Bounds of the model.                                                    *)
(***************************************************************************)
MaxCalls == 3
MaxConcTime == 2
MaxTime == 3

Threads == {"t1", "t2"}
MainThread == "t1"
Free == "free"

(***************************************************************************)
(* Configuration.                                                          *)
(***************************************************************************)
None == "None"
Missing == "<missing>"       \* the setting is not in the configuration at all
Unbound == "<unbound>"       \* a local variable that was never assigned
NoToken == 0                 \* os.getenv(key) of an unset key
NoKey == <<>>
NoHandle == [id |-> 0, kind |-> None, token |-> NoToken]

\* config.eas.token_refresh_interval
token_refresh_interval == 2

\* model_config.proxy and config.proxy: not declared, null, or a setting
ModelProxySettings == {Missing, None, "model-proxy"}
GlobalProxySettings == {Missing, None, "global-proxy"}

NullModelConfig ==
    [provider |-> None, type |-> None, model_name |-> None, api_base |-> None,
     api_version |-> None, engine |-> None, proxy |-> None]

\* model_config.type of a model that is not a chat model
OtherTypes == {"completion", "unknown"}

\* config.models: "1" and "2" are openai models, "3" is another provider,
\* "4" is declared with a null value; any other index is not declared.
models(c) ==
    [i \in {"1", "2", "3", "4"} |->
        CASE i = "1" -> [provider |-> "openai", type |-> "chat",
                         model_name |-> "gpt-chat", api_base |-> "https://a",
                         api_version |-> "v1", engine |-> "e1",
                         proxy |-> c.mproxy]
          [] i = "2" -> [provider |-> "openai", type |-> c.type2,
                         model_name |-> "gpt-text", api_base |-> "https://a",
                         api_version |-> "v1", engine |-> "e2",
                         proxy |-> None]
          [] i = "3" -> [provider |-> "anthropic", type |-> "chat",
                         model_name |-> "claude", api_base |-> "https://b",
                         api_version |-> "v1", engine |-> "e3",
                         proxy |-> None]
          [] OTHER -> NullModelConfig]

Indices == {"1", "2", "3", "4", "5"}
OpenAI == {"1", "2"}

\* SessionMap.uuid_from_config(config, model_config)
uuid_from_config(c, mc) ==
    <<mc.provider, mc.model_name, mc.api_base, mc.api_version, mc.engine>>

KeyOf(i) == uuid_from_config(cfg, models(cfg)[i])

(***************************************************************************)
(* SessionMap.                                                             *)
(***************************************************************************)
\* SessionMap.is_expired(key)
is_expired(c, k, t) ==
    \/ k \notin DOMAIN c
    \/ t - c[k].issuedAt >= token_refresh_interval

\* SessionMap.get_llm(key)
get_llm(c, k) == IF k \in DOMAIN c THEN c[k].llm ELSE NoHandle

\* SessionMap.new_session(key, llm)
new_session(c, k, llm, t) ==
    [x \in DOMAIN c \cup {k} |->
        IF x = k THEN [llm |-> llm, issuedAt |-> t] ELSE c[x]]

\* Every SessionMap operation runs under the lock of the map.
\* Faulty variant of acquire: the lock is taken without waiting for it.
acquire_unchecked(t) == lock' = t

acquire(t) == lock = Free /\ lock' = t

release(t) == lock' = Free

\* os.getenv(key)
getenv(e, k) == IF k \in DOMAIN e THEN e[k] ELSE NoToken

\* os.environ[key] = value
setenv(e, k, v) == [x \in DOMAIN e \cup {k} |-> IF x = k THEN v ELSE e[x]]

(***************************************************************************)
(* Pure parts of _get_model_ and _get_openai_model_.                       *)
(***************************************************************************)
\* Faulty variants of line 73: always reissue; reissue only when the token is
\* missing and the entry expired; reissue on a fresh entry; ignore the expiry.
needs_refresh_always(auth_token, expired) == TRUE

needs_refresh_both(auth_token, expired) == auth_token = NoToken /\ expired

needs_refresh_negated(auth_token, expired) == auth_token = NoToken \/ ~expired

needs_refresh_never_on_token(auth_token, expired) == auth_token = NoToken

\* line 73: auth_token is None or session_map.is_expired(model_session_key)
needs_refresh(auth_token, expired) == auth_token = NoToken \/ expired

\* Faulty variant of lines 76-79: only the type "completion" selects the
\* Azure client and any other type the chat client.
builder_for_completion_only(type) ==
    IF type = "completion" THEN "AzureOpenAI" ELSE "ChatOpenAI"

\* lines 76-79: the client class constructed for model_config.type
builder_for(type) == IF type = "chat" THEN "ChatOpenAI" ELSE "AzureOpenAI"

\* Faulty variant of lines 51-61: the global setting wins over the model's.
resolve_proxy_global_first(mproxy, gproxy) ==
    IF mproxy = Missing THEN Unbound
    ELSE IF gproxy \notin {Missing, None} THEN gproxy
    ELSE mproxy

\* lines 51-61: the local proxy_config when line 62 is reached; Unbound when
\* model_config.proxy raised KeyError (the handler leaves it unassigned).
resolve_proxy(mproxy, gproxy) ==
    IF mproxy = Missing THEN Unbound
    ELSE IF mproxy # None THEN mproxy
    ELSE IF gproxy = Missing THEN None
    ELSE gproxy

NoResult == [kind |-> "none", exc |-> "", msg |-> "", llm |-> NoHandle]
Raise(exc, msg) == [kind |-> "raise", exc |-> exc, msg |-> msg, llm |-> NoHandle]
Return(llm) == [kind |-> "ok", exc |-> "", msg |-> "", llm |-> llm]

\* Faulty variant of lines 49-65: the None check of line 49 is missing.
finish_unchecked(model_instance, mproxy, gproxy) ==
    IF resolve_proxy(mproxy, gproxy) = Unbound
    THEN Raise("UnboundLocalError", "proxy_config")
    ELSE Return(model_instance)

\* Faulty variant of lines 62-65: the value the wrapper produced is returned
\* in place of model_instance.
finish_returns_proxied(model_instance, mproxy, gproxy) ==
    IF model_instance = NoHandle
    THEN Raise("LCELModelException", "Not implemented")
    ELSE IF resolve_proxy(mproxy, gproxy) = Unbound
    THEN Raise("UnboundLocalError", "proxy_config")
    ELSE IF resolve_proxy(mproxy, gproxy) # None
    THEN Return([model_instance EXCEPT !.kind = "proxied"])
    ELSE Return(model_instance)

\* lines 49-65 of _get_model_: the outcome for model_instance and the proxy
\* settings of the two scopes
finish(model_instance, mproxy, gproxy) ==
    IF model_instance = NoHandle
    THEN Raise("LCELModelException", "Not implemented")
    ELSE IF resolve_proxy(mproxy, gproxy) = Unbound
    THEN Raise("UnboundLocalError", "proxy_config")
    ELSE Return(model_instance)

\* Faulty variant of line 64: the wrapper is called although line 49 found no
\* model_instance.
wraps_unchecked(model_instance, mproxy, gproxy) ==
    IF resolve_proxy(mproxy, gproxy) \notin {Unbound, None}
    THEN <<[llm |-> model_instance, proxy |-> resolve_proxy(mproxy, gproxy)]>>
    ELSE <<>>

\* line 64: the calls of wrap_llm_with_proxy made by lines 49-65
wraps(model_instance, mproxy, gproxy) ==
    IF /\ model_instance # NoHandle
       /\ resolve_proxy(mproxy, gproxy) \notin {Unbound, None}
    THEN <<[llm |-> model_instance, proxy |-> resolve_proxy(mproxy, gproxy)]>>
    ELSE <<>>

(***************************************************************************)
(* Initial state: a fresh process.                                         *)
(***************************************************************************)
IdleThread ==
    [pc |-> "idle", index |-> None, key |-> NoKey, auth_token |-> NoToken,
     llm |-> NoHandle, result |-> NoResult,
     issued |-> 0, built |-> <<>>, wrapped |-> <<>>, path |-> "none",
     pre |-> [tok |-> FALSE, fresh |-> FALSE, has |-> FALSE, llm |-> NoHandle,
              at |-> 0, first |-> FALSE, issueAt |-> 0, lastLlm |-> NoHandle,
              handles |-> 0, env |-> <<>>, cache |-> <<>>, afterCrash |-> FALSE],
     putAt |-> 0]

NoUses == [id |-> 0, returned |-> 0, wrapped |-> 0]

NoHist ==
    [first |-> TRUE, issueAt |-> 0, llm |-> NoHandle, clean |-> TRUE,
     crashed |-> FALSE, uses |-> NoUses]

Configs ==
    {[has_models |-> TRUE, mproxy |-> m, proxy |-> g, type2 |-> "completion"] :
        m \in ModelProxySettings, g \in GlobalProxySettings}
    \cup {[has_models |-> TRUE, mproxy |-> None, proxy |-> None, type2 |-> y] :
        y \in OtherTypes}
    \cup {[has_models |-> FALSE, mproxy |-> None, proxy |-> None,
           type2 |-> "completion"]}

\* os.environ is inherited: the key of model "1" may already hold a token.
InitEnv(c) ==
    {<<>>, [k \in {uuid_from_config(c, models(c)["1"])} |-> 1]}

Init ==
    /\ cfg \in Configs
    /\ now = 0
    /\ env \in InitEnv(cfg)
    /\ tokens = Cardinality(DOMAIN env)
    /\ cache = <<>>
    /\ lock = Free
    /\ th = [t \in Threads |-> IdleThread]
    /\ calls = 0
    /\ handles = 0
    /\ putLog = {}
    /\ hist = [i \in OpenAI |-> NoHist]


(***************************************************************************)
(* model(index), step by step.                                             *)
(***************************************************************************)
Set(t, r) == th' = [th EXCEPT ![t] = r]

Unclean(i) ==
    IF i \in OpenAI THEN [hist EXCEPT ![i].clean = FALSE] ELSE hist

\* Faulty variant of lines 38-45: the KeyError of config.models is not turned
\* into an error of its own and the lookup goes on.
lookup_unguarded(c, i) ==
    IF i \notin DOMAIN models(c)
    THEN Raise("KeyError", i)
    ELSE IF models(c)[i] = NullModelConfig
    THEN Raise("LCELModelException", "Model config at index is not defined")
    ELSE NoResult

\* lines 38-45 of _get_model_: the models of the configuration and the entry
\* at the index
lookup(c, i) ==
    IF ~c.has_models
    THEN Raise("LCELModelException", "No models defined in config")
    ELSE IF i \notin DOMAIN models(c)
    THEN Raise("KeyError", i)
    ELSE IF models(c)[i] = NullModelConfig
    THEN Raise("LCELModelException", "Model config at index is not defined")
    ELSE NoResult

\* line 47: the providers dispatched to _get_openai_model_
is_openai(mc) == mc.provider = "openai"

\* The state of the session of key k that a call starting now meets.
Snapshot(i, k) ==
    [tok |-> k \in DOMAIN env,
     has |-> k \in DOMAIN cache,
     fresh |-> k \in DOMAIN cache /\ now - cache[k].issuedAt < token_refresh_interval,
     llm |-> IF k \in DOMAIN cache THEN cache[k].llm ELSE NoHandle,
     at |-> now,
     first |-> hist[i].first,
     issueAt |-> hist[i].issueAt,
     lastLlm |-> hist[i].llm,
     handles |-> handles,
     env |-> env,
     cache |-> cache,
     afterCrash |-> hist[i].crashed]

\* model(index) is called: lines 32, 38-47 and, for an openai model, line 70.
get_model_begin(t, i) ==
    /\ th[t].pc \in {"idle", "done"}
    /\ calls < MaxCalls
    /\ calls' = calls + 1
    /\ LET call == [IdleThread EXCEPT !.index = i, !.pre.env = env,
                                      !.pre.cache = cache]
           found == lookup(cfg, i)
       IN  IF found # NoResult
           THEN /\ Set(t, [call EXCEPT !.pc = "done", !.result = found])
                /\ hist' = Unclean(i)
           ELSE IF is_openai(models(cfg)[i])
           THEN /\ Set(t, [call EXCEPT !.pc = "getenv", !.key = KeyOf(i),
                                       !.pre = Snapshot(i, KeyOf(i))])
                /\ hist' = [hist EXCEPT ![i].first = FALSE, ![i].crashed = FALSE]
           ELSE /\ Set(t, [call EXCEPT !.pc = "finish"])
                /\ hist' = hist
    /\ UNCHANGED <<cfg, now, env, cache, lock, tokens, handles, putLog>>

\* lines 71-73: auth_token = os.getenv(key); a missing token decides the
\* branch without asking the SessionMap (the `or` short-circuits).
openai_getenv(t) ==
    /\ th[t].pc = "getenv"
    /\ LET tok == getenv(env, th[t].key)
       IN  Set(t, [th[t] EXCEPT
                    !.auth_token = tok,
                    !.pc = IF needs_refresh(tok, FALSE)
                           THEN "issue" ELSE "is_expired",
                    !.path = IF needs_refresh(tok, FALSE)
                             THEN "miss" ELSE "none"])
    /\ UNCHANGED <<cfg, now, env, cache, lock, calls, tokens, handles, putLog, hist>>

\* line 73: session_map.is_expired(key) is entered
is_expired_enter(t) ==
    /\ th[t].pc = "is_expired"
    /\ acquire(t)
    /\ Set(t, [th[t] EXCEPT !.pc = "in_is_expired"])
    /\ UNCHANGED <<cfg, now, env, cache, calls, tokens, handles, putLog, hist>>

\* line 73: session_map.is_expired(key) answers and the branch is taken
is_expired_exit(t) ==
    /\ th[t].pc = "in_is_expired"
    /\ release(t)
    /\ LET miss == needs_refresh(th[t].auth_token,
                                 is_expired(cache, th[t].key, now))
       IN  Set(t, [th[t] EXCEPT
                    !.pc = IF miss THEN "issue" ELSE "get_llm",
                    !.path = IF miss THEN "miss" ELSE "hit"])
    /\ UNCHANGED <<cfg, now, env, cache, calls, tokens, handles, putLog, hist>>

\* Faulty variant of line 74: a failed issuance is tried once more.
openai_issue_retry(t) ==
    /\ th[t].pc = "issue"
    /\ \/ /\ tokens' = tokens + 1
          /\ Set(t, [th[t] EXCEPT !.auth_token = tokens + 1,
                                  !.issued = @ + 1, !.pc = "setenv"])
          /\ hist' = [hist EXCEPT ![th[t].index].issueAt = now]
       \/ /\ tokens' = tokens
          /\ Set(t, [th[t] EXCEPT !.issued = @ + 2, !.pc = "done",
                                  !.result = Raise("TokenIssuerError", "")])
          /\ hist' = Unclean(th[t].index)
    /\ UNCHANGED <<cfg, now, env, cache, lock, calls, handles, putLog>>

\* line 74: auth_token = get_token_from_env(index); the issuer may raise
openai_issue(t) ==
    /\ th[t].pc = "issue"
    /\ \/ /\ tokens' = tokens + 1
          /\ Set(t, [th[t] EXCEPT !.auth_token = tokens + 1,
                                  !.issued = @ + 1, !.pc = "setenv"])
          /\ hist' = [hist EXCEPT ![th[t].index].issueAt = now]
       \/ /\ tokens' = tokens
          /\ Set(t, [th[t] EXCEPT !.issued = @ + 1, !.pc = "done",
                                  !.result = Raise("TokenIssuerError", "")])
          /\ hist' = Unclean(th[t].index)
    /\ UNCHANGED <<cfg, now, env, cache, lock, calls, handles, putLog>>

\* line 75: os.environ[key] = auth_token
openai_setenv(t) ==
    /\ th[t].pc = "setenv"
    /\ env' = setenv(env, th[t].key, th[t].auth_token)
    /\ Set(t, [th[t] EXCEPT !.pc = "build"])
    /\ UNCHANGED <<cfg, now, cache, lock, calls, tokens, handles, putLog, hist>>

\* lines 76-79: _get_chat_model_ or _get_azure_model_; the SDK may raise
openai_build(t) ==
    /\ th[t].pc = "build"
    /\ LET kind == builder_for(models(cfg)[th[t].index].type)
       IN  \/ /\ handles' = handles + 1
              /\ Set(t, [th[t] EXCEPT
                    !.llm = [id |-> handles + 1, kind |-> kind,
                             token |-> th[t].auth_token],
                    !.built = Append(@, [kind |-> kind, token |-> th[t].auth_token]),
                    !.pc = "new_session"])
              /\ hist' = hist
           \/ /\ handles' = handles
              /\ Set(t, [th[t] EXCEPT
                    !.built = Append(@, [kind |-> kind, token |-> th[t].auth_token]),
                    !.pc = "done", !.result = Raise("SDKError", "")])
              /\ hist' = [hist EXCEPT ![th[t].index].clean = FALSE,
                                      ![th[t].index].crashed = TRUE]
    /\ UNCHANGED <<cfg, now, env, cache, lock, calls, tokens, putLog>>

\* line 81: session_map.new_session(key, llm) is entered
new_session_enter(t) ==
    /\ th[t].pc = "new_session"
    /\ acquire(t)
    /\ Set(t, [th[t] EXCEPT !.pc = "in_new_session"])
    /\ UNCHANGED <<cfg, now, env, cache, calls, tokens, handles, putLog, hist>>

\* lines 81-82: the entry is stored and llm is returned to _get_model_
new_session_exit(t) ==
    /\ th[t].pc = "in_new_session"
    /\ release(t)
    /\ cache' = new_session(cache, th[t].key, th[t].llm, now)
    /\ putLog' = putLog \cup
            {[key |-> th[t].key, llm |-> th[t].llm, issuedAt |-> now]}
    /\ Set(t, [th[t] EXCEPT !.pc = "finish", !.putAt = now])
    /\ UNCHANGED <<cfg, now, env, calls, tokens, handles, hist>>

\* line 84: session_map.get_llm(key) is entered
get_llm_enter(t) ==
    /\ th[t].pc = "get_llm"
    /\ acquire(t)
    /\ Set(t, [th[t] EXCEPT !.pc = "in_get_llm"])
    /\ UNCHANGED <<cfg, now, env, cache, calls, tokens, handles, putLog, hist>>

\* Faulty variant of line 84: reading the cached llm also stores it anew, so
\* that its issuedAt moves with every use.
get_llm_exit_touch(t) ==
    /\ th[t].pc = "in_get_llm"
    /\ release(t)
    /\ cache' = new_session(cache, th[t].key, get_llm(cache, th[t].key), now)
    /\ Set(t, [th[t] EXCEPT !.llm = get_llm(cache, th[t].key), !.pc = "finish"])
    /\ UNCHANGED <<cfg, now, env, calls, tokens, handles, putLog, hist>>

\* line 84: the cached llm is returned to _get_model_
get_llm_exit(t) ==
    /\ th[t].pc = "in_get_llm"
    /\ release(t)
    /\ Set(t, [th[t] EXCEPT !.llm = get_llm(cache, th[t].key), !.pc = "finish"])
    /\ UNCHANGED <<cfg, now, env, cache, calls, tokens, handles, putLog, hist>>

\* History of a handle: how often model(index) returned it and how often it
\* was passed to wrap_llm_with_proxy.
Used(u, llm, n) ==
    IF u.id = llm.id
    THEN [u EXCEPT !.returned = @ + 1, !.wrapped = @ + n]
    ELSE [id |-> llm.id, returned |-> 1, wrapped |-> n]

\* lines 49-65: the None check, the proxy chain, the wrapper, the return
get_model_finish(t) ==
    /\ th[t].pc = "finish"
    /\ LET mc == models(cfg)[th[t].index]
           res == finish(th[t].llm, mc.proxy, cfg.proxy)
       IN  /\ Set(t, [th[t] EXCEPT
                    !.pc = "done", !.result = res,
                    !.wrapped = wraps(th[t].llm, mc.proxy, cfg.proxy)])
           /\ hist' = IF res.kind # "ok" THEN Unclean(th[t].index)
                      ELSE [hist EXCEPT
                              ![th[t].index].llm =
                                  IF th[t].issued > 0 THEN res.llm ELSE @,
                              ![th[t].index].uses =
                                  Used(@, res.llm,
                                       Len(wraps(th[t].llm, mc.proxy, cfg.proxy)))]
    /\ UNCHANGED <<cfg, now, env, cache, lock, calls, tokens, handles, putLog>>

\* time passes
Tick ==
    /\ now < MaxTime
    /\ now' = now + 1
    /\ UNCHANGED <<cfg, env, cache, lock, th, calls, tokens, handles, putLog, hist>>

Step(t) ==
    \/ \E i \in Indices : get_model_begin(t, i)
    \/ openai_getenv(t)
    \/ is_expired_enter(t)
    \/ is_expired_exit(t)
    \/ openai_issue(t)
    \/ openai_setenv(t)
    \/ openai_build(t)
    \/ new_session_enter(t)
    \/ new_session_exit(t)
    \/ get_llm_enter(t)
    \/ get_llm_exit(t)
    \/ get_model_finish(t)

Resting(t) == th[t].pc \in {"idle", "done"}

\* Calls one after the other, all made by the main thread: a call runs to
\* its end before the next one starts, and takes no time.
SeqNext ==
    \/ Step(MainThread)
    \/ Resting(MainThread) /\ Tick

Spec == Init /\ [][SeqNext]_vars

\* Calls of several threads, interleaved at every step: each thread makes one
\* call, for an openai model, in a process whose configuration declares no
\* proxy. The process is fresh, or the main thread has already resolved
\* model "1" once, at time 0.
Resolved1(e, tok) ==
    LET k == uuid_from_config(cfg, models(cfg)["1"])
        llm == [id |-> 1, kind |-> builder_for(models(cfg)["1"].type), token |-> tok]
    IN  /\ env = setenv(e, k, tok)
        /\ tokens = tok
        /\ cache = new_session(<<>>, k, llm, 0)
        /\ handles = 1
        /\ putLog = {[key |-> k, llm |-> llm, issuedAt |-> 0]}
        /\ hist = [i \in OpenAI |->
                     IF i = "1"
                     THEN [first |-> FALSE, issueAt |-> 0, llm |-> llm, clean |-> TRUE,
                           crashed |-> FALSE,
                           uses |-> [id |-> 1, returned |-> 1, wrapped |-> 0]]
                     ELSE NoHist]
        /\ calls = 1

InitConc ==
    /\ cfg = [has_models |-> TRUE, mproxy |-> None, proxy |-> None,
              type2 |-> "completion"]
    /\ now = 0
    /\ lock = Free
    /\ th = [t \in Threads |-> IdleThread]
    /\ \/ /\ env \in InitEnv(cfg)
          /\ tokens = Cardinality(DOMAIN env)
          /\ cache = <<>>
          /\ handles = 0
          /\ putLog = {}
          /\ hist = [i \in OpenAI |-> NoHist]
          /\ calls = 0
       \/ \E e \in InitEnv(cfg) : Resolved1(e, Cardinality(DOMAIN e) + 1)

ConcNext ==
    \/ \E t \in Threads :
          th[t].pc # "done" /\ Step(t) /\ th'[t].index \in OpenAI
    \/ Tick /\ now < MaxConcTime

SpecConc == InitConc /\ [][ConcNext]_vars


(***************************************************************************)
(* Properties.                                                             *)
(***************************************************************************)
main == th[MainThread]

\* The call of the main thread is for an openai model and has ended.
EndedOpenAI == main.pc = "done" /\ main.index \in OpenAI /\ cfg.has_models

\* The call met a present raw token and a cache entry that is not expired.
MetFresh(c) == c.pre.tok /\ c.pre.fresh

\* C1: a call of resolve(index) made while the Token Store holds a token
\* under the model's key and the Session Cache holds a non-expired entry for
\* it never invokes the Token Issuer or a Provider Builder, and the handle it
\* returns is the handle of that entry.
C1_CacheHitSkipsReissuance ==
    (main.pc # "idle" /\ main.index \in OpenAI /\ MetFresh(main)) =>
        /\ main.issued = 0
        /\ main.built = <<>>
        /\ main.pc \notin {"issue", "setenv", "build", "new_session", "in_new_session"}
        /\ (main.pc = "done" /\ main.result.kind = "ok") =>
                main.result.llm = main.pre.llm

C1_Witness ==
    /\ EndedOpenAI
    /\ MetFresh(main)
    /\ main.result.kind = "ok"
    /\ main.result.llm = main.pre.llm
    /\ main.result.llm # NoHandle
    /\ main.issued = 0

\* C2: a call of resolve(index) for an openai model made while the raw token
\* is absent or the cache entry is expired or missing invokes the Token
\* Issuer exactly once, publishes the issued token under the key, stores a
\* new entry with issuedAt equal to the time of the call, and returns the
\* handle it built and stored (the collaborators not failing).
C2_CacheMissFullPipeline ==
    (/\ EndedOpenAI
     /\ ~MetFresh(main)
     /\ main.result.exc \notin {"TokenIssuerError", "SDKError"}) =>
        /\ main.issued = 1
        /\ main.auth_token # NoToken
        /\ getenv(env, main.key) = main.auth_token
        /\ main.key \in DOMAIN cache
        /\ cache[main.key].issuedAt = main.pre.at
        /\ main.result.kind = "ok"
        /\ main.result.llm = cache[main.key].llm
        /\ main.result.llm.id > main.pre.handles
        /\ main.result.llm.token = main.auth_token


\* The call of the main thread has returned a handle, and so has every
\* earlier call for the same index.
EndedInSuccessfulSequence ==
    /\ EndedOpenAI
    /\ main.result.kind = "ok"
    /\ hist[main.index].clean

Elapsed(c) == c.pre.at - c.pre.issueAt

\* C3: in a sequence of successful calls of resolve(index) for one index, a
\* call invokes the Token Issuer if and only if it is the first call or at
\* least the refresh interval has elapsed since the last issuance; every other
\* call returns the handle the most recent issuing call returned, and a call
\* after the interval returns a new handle.
C3_SessionReuseAcrossCalls ==
    EndedInSuccessfulSequence =>
        /\ main.issued \in {0, 1}
        /\ main.issued = 1 <=>
              (main.pre.first \/ Elapsed(main) >= token_refresh_interval)
        /\ main.issued = 0 => main.result.llm = main.pre.lastLlm
        /\ main.issued = 1 =>
              /\ main.result.llm # main.pre.lastLlm
              /\ main.result.llm.id > main.pre.handles

C3_Witness ==
    /\ EndedInSuccessfulSequence
    /\ ~main.pre.first
    /\ main.pre.lastLlm # NoHandle
    /\ Elapsed(main) >= token_refresh_interval
    /\ main.issued = 1
    /\ main.result.llm # main.pre.lastLlm

\* C4: the expiry decision of resolve: with a raw token present, the call
\* reuses the cached handle exactly when an entry exists and less than the
\* refresh interval has elapsed since its issuedAt, and reissues when no entry
\* exists or the elapsed time is the interval or more.
C4_ExpiryBoundary ==
    LET k == main.key
        age == now - cache[k].issuedAt
    IN  /\ main.pc \in {"get_llm", "in_get_llm"} =>
              /\ k \in DOMAIN cache
              /\ age <= token_refresh_interval - 1
        /\ (main.pc = "issue" /\ main.auth_token # NoToken) =>
              \/ k \notin DOMAIN cache
              \/ age >= token_refresh_interval
        /\ (main.pc = "is_expired") => main.auth_token # NoToken

C4_Witness ==
    /\ main.pc = "issue"
    /\ main.auth_token # NoToken
    /\ main.key \in DOMAIN cache
    /\ now - cache[main.key].issuedAt = token_refresh_interval

C4_WitnessBelow ==
    /\ main.pc = "get_llm"
    /\ now - cache[main.key].issuedAt = token_refresh_interval - 1

\* The main thread's call has returned a handle.
Returned == main.pc = "done" /\ main.result.kind = "ok"

Declared(p) == p \notin {Missing, None}

\* C5: for every successful resolve the proxy configuration passed to the
\* Proxy Wrapper is the model-scoped one when the model declares one, else
\* the global-scoped one when the configuration declares one; the global one
\* is never used when a model-scoped one is present.
C5_ProxyPrecedence ==
    Returned =>
        LET mp == models(cfg)[main.index].proxy
            gp == cfg.proxy
        IN  /\ Declared(mp) =>
                main.wrapped = <<[llm |-> main.result.llm, proxy |-> mp]>>
            /\ (~Declared(mp) /\ Declared(gp)) =>
                main.wrapped = <<[llm |-> main.result.llm, proxy |-> gp]>>
            /\ \A n \in 1..Len(main.wrapped) :
                main.wrapped[n].proxy = gp => ~Declared(mp)

C5_Witness ==
    /\ Returned
    /\ Declared(models(cfg)[main.index].proxy)
    /\ Declared(cfg.proxy)
    /\ cfg.proxy # models(cfg)[main.index].proxy
    /\ main.wrapped =
          <<[llm |-> main.result.llm, proxy |-> models(cfg)[main.index].proxy]>>

\* The main thread's call for an openai model has ended and no collaborator
\* (Token Issuer, SDK constructor) failed in it.
EndedUnfailed ==
    EndedOpenAI /\ main.result.exc \notin {"TokenIssuerError", "SDKError"}

\* C6: when the model has no proxy setting (the field missing or null), resolve
\* raises no error; with no global setting either it never invokes the Proxy
\* Wrapper and returns the handle as built or cached, and otherwise it falls
\* through to the global-scoped setting.
C6_ProxyAbsenceIsNoError ==
    (EndedUnfailed /\ ~Declared(models(cfg)[main.index].proxy)) =>
        /\ main.result.kind = "ok"
        /\ main.result.llm = main.llm
        /\ main.wrapped =
              IF Declared(cfg.proxy)
              THEN <<[llm |-> main.llm, proxy |-> cfg.proxy]>>
              ELSE <<>>


\* The main thread's call has ended in a process whose configuration
\* declares models.
EndedWithModels == main.pc = "done" /\ cfg.has_models

\* C7: for every index absent from the configured models, and for every index
\* that maps to a null entry, resolve fails with LCELModelException and with
\* no other kind of error.
C7_ModelNotFound ==
    (/\ EndedWithModels
     /\ \/ main.index \notin DOMAIN models(cfg)
        \/ models(cfg)[main.index] = NullModelConfig) =>
        /\ main.result.kind = "raise"
        /\ main.result.exc = "LCELModelException"

\* C8: for every model whose provider is not "openai" resolve fails with
\* LCELModelException("Not implemented"), and resolve never returns a null
\* handle: a null client from the provider step fails the same way.
C8_UnsupportedProvider ==
    /\ (/\ EndedWithModels
        /\ main.index \in DOMAIN models(cfg)
        /\ models(cfg)[main.index] # NullModelConfig
        /\ models(cfg)[main.index].provider # "openai") =>
            main.result = Raise("LCELModelException", "Not implemented")
    /\ Returned =>
            /\ main.result.llm # NoHandle
            /\ main.result.llm = main.llm
    /\ (main.pc = "done" /\ main.result.msg = "Not implemented") =>
            main.llm = NoHandle

C8_Witness ==
    /\ EndedWithModels
    /\ main.index = "3"
    /\ models(cfg)[main.index].provider = "anthropic"
    /\ main.result = Raise("LCELModelException", "Not implemented")

\* C9: resolve never takes the reuse branch for a key that has no cache
\* entry (a present token with no entry is handled as a cache miss), so in no
\* reachable state does it return an absent handle or fail on the lookup of
\* the cached handle.
C9_NoAbsentHandle ==
    \A t \in Threads :
        /\ th[t].pc \in {"get_llm", "in_get_llm"} => th[t].key \in DOMAIN cache
        /\ (th[t].pc \in {"finish", "done"} /\ th[t].path = "hit") =>
                /\ th[t].llm # NoHandle
                /\ th[t].key \in DOMAIN cache
        /\ (th[t].pc = "done" /\ th[t].path = "hit") =>
                th[t].result.exc \notin {"KeyError", "LCELModelException"}
        /\ (th[t].pc = "done" /\ th[t].result.kind = "ok") =>
                th[t].result.llm # NoHandle

C9_Witness ==
    \E t \in Threads :
        /\ th[t].pc = "issue"
        /\ th[t].auth_token # NoToken
        /\ th[t].path = "miss"
        /\ th[t].key \notin DOMAIN cache
        /\ th[t].key \in DOMAIN env

InOp(t) == th[t].pc \in {"in_is_expired", "in_get_llm", "in_new_session"}
Writing(t) == th[t].pc = "in_new_session"
Waiting(t) == th[t].pc \in {"is_expired", "get_llm", "new_session"}

\* C10: under every interleaving of concurrent calls no is_expired, get_llm
\* or new_session on a key overlaps a new_session on the same key, and every
\* key maps to one whole entry whose handle and issuedAt were written
\* together by a single new_session.
C10_CacheConcurrentSafety ==
    /\ \A t \in Threads : \A u \in Threads \ {t} :
          (Writing(t) /\ InOp(u)) => th[t].key # th[u].key
    /\ \A t \in Threads : InOp(t) <=> lock = t
    /\ \A k \in DOMAIN cache :
          /\ [key |-> k, llm |-> cache[k].llm, issuedAt |-> cache[k].issuedAt]
                \in putLog
          /\ cache[k].llm # NoHandle

C10_Witness ==
    \E t \in Threads : \E u \in Threads \ {t} :
        /\ Writing(t)
        /\ Waiting(u)
        /\ th[t].key = th[u].key
        /\ th[t].key \in DOMAIN cache


\* C11: when the Token Issuer fails, the failure propagates, no Provider
\* Builder is invoked, the issuer is not invoked again, no handle is returned
\* and the Token Store and the Session Cache are as they were before the call;
\* when a Provider Builder fails, the failure propagates, no handle is
\* returned and no entry is stored.
C11_FailurePropagation ==
    /\ (main.pc = "done" /\ main.result.exc = "TokenIssuerError") =>
            /\ main.result.kind = "raise"
            /\ main.result.llm = NoHandle
            /\ main.issued = 1
            /\ main.built = <<>>
            /\ env = main.pre.env
            /\ cache = main.pre.cache
    /\ (main.pc = "done" /\ main.result.exc = "SDKError") =>
            /\ main.result.kind = "raise"
            /\ main.result.llm = NoHandle
            /\ main.issued = 1
            /\ Len(main.built) = 1
            /\ cache = main.pre.cache

C11_Witness ==
    /\ main.pc = "done"
    /\ main.result.exc = "TokenIssuerError"
    /\ main.pre.has
    /\ main.pre.tok
    /\ cache = main.pre.cache
    /\ env = main.pre.env

C11_WitnessBuilder ==
    /\ main.pc = "done"
    /\ main.result.exc = "SDKError"
    /\ main.pre.has
    /\ env # main.pre.env

\* C12: when the configuration defines no models, resolve fails for every
\* index with LCELModelException("No models defined in config"), before a key
\* is computed, a token issued, or the Token Store or the cache touched.
C12_NoModelsDefined ==
    ~cfg.has_models =>
        /\ main.pc \in {"idle", "done"}
        /\ main.pc = "done" =>
              /\ main.result =
                    Raise("LCELModelException", "No models defined in config")
              /\ main.key = NoKey
              /\ main.issued = 0
              /\ main.built = <<>>
              /\ main.wrapped = <<>>
              /\ env = main.pre.env
              /\ cache = main.pre.cache
        /\ cache = <<>>
        /\ putLog = {}
        /\ handles = 0
        /\ env \in InitEnv(cfg)
        /\ tokens = Cardinality(DOMAIN env)

C12_Witness ==
    /\ ~cfg.has_models
    /\ main.pc = "done"
    /\ main.index = "1"
    /\ calls > 1
    /\ main.result = Raise("LCELModelException", "No models defined in config")


\* The previous call for the same index stopped between the publication of
\* its token and new_session (its builder failed), and this call has ended
\* with no collaborator failing.
EndedAfterCrash == EndedUnfailed /\ main.pre.afterCrash

\* C14: on the miss path the token is published under the key before
\* new_session stores the handle; and a call that follows one stopped between
\* the two does not fail on a lookup and does not take the reuse branch or
\* return a stale or absent handle: it reissues, builds and stores a handle.
C14_PublicationOrderAndTolerance ==
    /\ main.pc \in {"build", "new_session", "in_new_session"} =>
            /\ main.auth_token # NoToken
            /\ getenv(env, main.key) = main.auth_token
    /\ DOMAIN cache \subseteq DOMAIN env
    /\ (main.pc \in {"finish", "done"} /\ main.path = "miss"
            /\ main.llm # NoHandle) =>
            /\ cache[main.key].llm = main.llm
            /\ main.llm.token = getenv(env, main.key)
    /\ (main.pc # "idle" /\ main.pre.afterCrash) =>
            /\ main.pre.tok
            /\ main.path # "hit"
            /\ main.pc \notin {"get_llm", "in_get_llm"}
    /\ EndedAfterCrash =>
            /\ main.result.exc \notin {"KeyError", "LCELModelException"}
            /\ main.issued = 1
            /\ Len(main.built) = 1
            /\ main.llm.id > main.pre.handles
            /\ main.llm # main.pre.llm
            /\ main.key \in DOMAIN cache
            /\ cache[main.key] = [llm |-> main.llm, issuedAt |-> main.pre.at]
            /\ main.result.kind = "ok" => main.result.llm = main.llm

C14_Witness ==
    /\ EndedAfterCrash
    /\ main.result.kind = "ok"
    /\ main.pre.tok
    /\ main.issued = 1
    /\ main.result.llm = cache[main.key].llm
    /\ main.result.llm.token = getenv(env, main.key)
    /\ main.result.llm.token # main.pre.env[main.key]


\* C15: once the cache holds an entry for a key it holds one in every later
\* state; an entry appears or changes only by the new_session of a miss-path
\* call, which stores the handle that call built together with issuedAt = now;
\* a step of a hit-path call leaves the cache unchanged.
C15_EntriesReplacedNeverRemoved ==
    [][ /\ DOMAIN cache \subseteq DOMAIN cache'
        /\ \A k \in DOMAIN cache' :
              (k \notin DOMAIN cache \/ cache'[k] # cache[k]) =>
                  \E t \in Threads :
                      /\ th[t].pc = "in_new_session"
                      /\ th'[t].pc = "finish"
                      /\ th[t].path = "miss"
                      /\ th[t].key = k
                      /\ th[t].llm.id > th[t].pre.handles
                      /\ cache'[k] = [llm |-> th[t].llm, issuedAt |-> now]
                      /\ k \in DOMAIN cache => cache'[k].llm # cache[k].llm
        /\ \A t \in Threads :
              (th[t].path = "hit" /\ th'[t] # th[t]) => cache' = cache
      ]_vars

C15_Witness ==
    /\ EndedOpenAI
    /\ main.pre.has
    /\ main.key \in DOMAIN cache
    /\ cache[main.key].llm # main.pre.cache[main.key].llm
    /\ cache[main.key].issuedAt > main.pre.cache[main.key].issuedAt
    /\ Cardinality(DOMAIN cache) = 2
    /\ DOMAIN main.pre.cache = DOMAIN cache


\* The main thread's call for an openai model is on the miss path and past
\* the construction of the client.
PastBuild ==
    /\ cfg.has_models
    /\ main.index \in OpenAI
    /\ main.path = "miss"
    /\ main.pc \in {"new_session", "in_new_session", "finish", "done"}
    /\ main.result.exc # "TokenIssuerError"

\* C16: on the miss path for an openai model exactly one builder is invoked,
\* with the token this call was issued: the chat builder if and only if
\* model_config.type is "chat", the Azure builder for every other type, which
\* never ends in LCELModelException("Not implemented").
C16_BuilderDispatchByType ==
    /\ (main.pc # "idle" /\ main.index \in OpenAI) =>
            /\ Len(main.built) <= 1
            /\ main.path = "hit" => main.built = <<>>
    /\ PastBuild =>
            LET type == models(cfg)[main.index].type
            IN  /\ Len(main.built) = 1
                /\ main.issued = 1
                /\ main.built[1].token = main.auth_token
                /\ main.auth_token = tokens
                /\ main.auth_token # getenv(main.pre.env, main.key)
                /\ main.built[1].kind = "ChatOpenAI" <=> type = "chat"
                /\ main.built[1].kind = "AzureOpenAI" <=> type # "chat"
                /\ main.result.msg # "Not implemented"

C16_Witness ==
    /\ PastBuild
    /\ main.pc = "done"
    /\ main.result.kind = "ok"
    /\ models(cfg)[main.index].type = "unknown"
    /\ main.built = <<[kind |-> "AzureOpenAI", token |-> main.auth_token]>>
    /\ main.result.llm.kind = "AzureOpenAI"


\* C17: under every interleaving of concurrent calls for one key, a call
\* about to return a handle on the cache-hit path holds a handle built with
\* the token that os.environ holds under that key at that moment.
C17_TokenHandleAgreement ==
    \A t \in Threads :
        (th[t].pc = "finish" /\ th[t].path = "hit") =>
            th[t].llm.token = getenv(env, th[t].key)


\* The main thread's call has ended in LCELModelException for an index whose
\* entry is null or whose provider is not openai.
Rejected ==
    /\ EndedWithModels
    /\ main.index \notin OpenAI
    /\ main.result.exc = "LCELModelException"
    /\ main.result.msg \in {"Model config at index is not defined",
                            "Not implemented"}

\* C18: a resolve call that fails because the entry at the index is null, or
\* because the provider is not openai, has invoked neither the Token Issuer
\* nor a Provider Builder nor the Proxy Wrapper, and os.environ and the
\* Session Cache are as they were before the call.
C18_RejectedResolutionsHaveNoEffect ==
    Rejected =>
        /\ main.issued = 0
        /\ main.built = <<>>
        /\ main.wrapped = <<>>
        /\ main.path = "none"
        /\ main.llm = NoHandle
        /\ env = main.pre.env
        /\ cache = main.pre.cache

C18_Witness ==
    /\ Rejected
    /\ main.index = "3"
    /\ main.result.msg = "Not implemented"
    /\ Declared(cfg.proxy)
    /\ main.pre.cache # <<>>
    /\ main.wrapped = <<>>
    /\ cache = main.pre.cache

\* A proxy configuration resolves for the model at index i.
ProxyResolves(i) ==
    resolve_proxy(models(cfg)[i].proxy, cfg.proxy) \notin {Unbound, None}

\* C19: when a proxy configuration resolves, every successful resolve call
\* passes the handle it returns to the Proxy Wrapper exactly once, on the
\* cache-hit path as on the miss path, so a handle returned by n calls has
\* been wrapped n times; the caller gets the handle that was passed to the
\* wrapper.
C19_ProxyWrappingOnEveryResolution ==
    /\ (Returned /\ ProxyResolves(main.index)) =>
            /\ Len(main.wrapped) = 1
            /\ main.wrapped[1].llm = main.llm
            /\ main.wrapped[1].llm = main.result.llm
            /\ main.wrapped[1].proxy =
                  resolve_proxy(models(cfg)[main.index].proxy, cfg.proxy)
            /\ main.result.llm = cache[main.key].llm
    /\ \A i \in OpenAI :
            (cfg.has_models /\ ProxyResolves(i)) =>
                hist[i].uses.wrapped = hist[i].uses.returned

C19_Witness ==
    /\ Returned
    /\ ProxyResolves(main.index)
    /\ main.path = "hit"
    /\ main.built = <<>>
    /\ main.wrapped = <<[llm |-> main.result.llm,
                         proxy |-> resolve_proxy(models(cfg)[main.index].proxy,
                                                 cfg.proxy)]>>
    /\ hist[main.index].uses =
          [id |-> main.result.llm.id, returned |-> 2, wrapped |-> 2]

====
